---- MODULE Spec2Model ----
(***************************************************************************)
(* A model of the two tools of physics-sims:                               *)
(*   - serve.py            the development HTTP server (run_server,        *)
(*                         find_free_port, DevHandler)                     *)
(*   - Solar-System/concat.py   the file bundler (FILES, HEADER, bundle)   *)
(* ServerSpec is the state machine of one run of run_server, interleaved   *)
(* with the timer thread, the request handlers, the operator's interrupt   *)
(* and other processes binding ports.  BundlerSpec is the state machine of *)
(* repeated calls of bundle() on one filesystem.                           *)
(***************************************************************************)
EXTENDS Integers, Sequences, FiniteSets, TLC

\* ------------------------------------------------------------------ bounds
\* Ports of the host are 1..MaxPort (0 is the "any port" sentinel).
MaxPort == 2
\* Longest --open path, in tokens.
MaxOpenLen == 2
\* Requests handled in one run.
MaxRequests == 2
\* Longest file list given to bundle().
MaxFiles == 2
\* Calls of bundle() in one behaviour.
MaxRuns == 2
\* Tokens the output stream buffers before it writes them to the file
\* (stands for io.DEFAULT_BUFFER_SIZE).
BufferSize == 4

VARIABLES
    \* ---- serve.py
    pc,            \* position of the main thread in run_server
    cfgPort,       \* the port argument of run_server (0: any)
    open_path,     \* the open_path argument: [none |-> BOOLEAN, s |-> tokens]
    port,          \* the local variable port of run_server
    others,        \* ports other processes listen on
    probe,         \* port held by find_free_port's probe socket (0: none)
    sock,          \* httpd's listening socket: "none", "open", "closed"
    boundPort,     \* port httpd was constructed on (0: none)
    closeCount,    \* calls of httpd.server_close() that completed
    pending,       \* an exception is propagating through the finally block
    timers,        \* threading.Timer objects started
    timerState,    \* "none", "pending", "opened", "failed"
    open_url,      \* the URL captured by the timer's lambda
    browserCalls,  \* URLs webbrowser.open was called with
    interrupted,   \* a KeyboardInterrupt was delivered to the main thread
    bindFailed,    \* constructing httpd raised OSError
    served,        \* serve_forever() was entered
    wire,          \* header block of the last response sent
    nreq,          \* requests handled
    \* ---- concat.py
    bpc,           \* position in bundle(): "idle", "loop", "done", "raised"
    build,         \* host and pathlib: "posix", "nt" (Python >= 3.12), "nt_legacy"
    given,         \* the list literal (FILES) or the caller's files argument
    fromDefault,   \* bundle() was called with files=None
    output,        \* the output argument
    fs,            \* the filesystem: key -> [kind, text]
    files,         \* the local variable files
    idx,           \* index of the next entry of files
    count_ok,
    count_skipped,
    buf,           \* text written to out_fp and not yet in the file
    warnings,      \* paths reported as not found
    headers,       \* header lines written: [src, line]
    reads,         \* texts read: [i, text]
    ret,           \* return value of bundle(): [set, path]
    run,           \* number of the current call of bundle()
    prevOutput     \* the output file as the previous call left it

svars == <<pc, cfgPort, open_path, port, others, probe, sock, boundPort,
           closeCount, pending, timers, timerState, open_url, browserCalls,
           interrupted, bindFailed, served, wire, nreq>>
bvars == <<bpc, build, given, fromDefault, output, fs, files, idx,
           count_ok, count_skipped, buf, warnings, headers, reads, ret, run,
           prevOutput>>
vars == <<svars, bvars>>

\* ======================================================== serve.py
Ports == 1..MaxPort
Host == "127.0.0.1"
OpenTokens == {"/", "p"}

RECURSIVE SeqsUpTo(_, _)
SeqsUpTo(S, n) ==
    IF n = 0 THEN {<<>>}
    ELSE LET shorter == SeqsUpTo(S, n - 1)
         IN shorter \cup {Append(s, x) : s \in shorter, x \in S}

OpenPaths == [none : {TRUE}, s : {<<>>}]
             \cup [none : {FALSE}, s : SeqsUpTo(OpenTokens, MaxOpenLen)]

\* `if open_path:` -- None and "" are both false.
Truthy(op) == ~op.none /\ op.s # <<>>

\* str.lstrip("/")
RECURSIVE LStrip(_)
LStrip(s) == IF s # <<>> /\ Head(s) = "/" THEN LStrip(Tail(s)) ELSE s

\* url = f"http://{host}:{port}/" ; open_url = url + open_path.lstrip("/")
BaseUrl(h, p) == [scheme |-> "http", host |-> h, port |-> p, path |-> <<"/">>]
OpenUrl(h, p, op) == [BaseUrl(h, p) EXCEPT !.path = <<"/">> \o LStrip(op.s)]
NoUrl == BaseUrl("", 0)

\* ---- DevHandler and the handler it extends.  A header block is a sequence
\* of <<keyword, value>> lines; CRLF is the empty line that terminates it.
CRLF == <<"", "">>
send_response(code) == << <<"HTTP/1.0", code>>, <<"Server", "SimpleHTTP">>, <<"Date", "now">> >>
send_header(b, k, v) == Append(b, <<k, v>>)
BaseEndHeaders(b) == Append(b, CRLF)

\* DevHandler.end_headers; the variant before it leaves out the Expires header.
DevEndHeaders_NoExpires(b) ==
    BaseEndHeaders(send_header(send_header(b,
        "Cache-Control", "no-store, no-cache, must-revalidate"),
        "Pragma", "no-cache"))
DevHandler_end_headers(b) ==
    BaseEndHeaders(send_header(send_header(send_header(b,
        "Cache-Control", "no-store, no-cache, must-revalidate"),
        "Pragma", "no-cache"),
        "Expires", "0"))

Outcomes == {"file", "listing", "redirect", "notmodified", "notfound", "forbidden"}
send_error(code) ==
    DevHandler_end_headers(send_header(send_header(send_header(send_response(code),
        "Connection", "close"), "Content-Type", "text/html"), "Content-Length", "n"))
Respond(o) ==
    CASE o = "file" ->
           DevHandler_end_headers(send_header(send_header(send_header(send_response("200"),
               "Content-type", "guessed"), "Content-Length", "n"), "Last-Modified", "mtime"))
      [] o = "listing" ->
           DevHandler_end_headers(send_header(send_header(send_response("200"),
               "Content-type", "text/html"), "Content-Length", "n"))
      [] o = "redirect" ->
           DevHandler_end_headers(send_header(send_header(send_response("301"),
               "Location", "path/"), "Content-Length", "0"))
      [] o = "notmodified" -> DevHandler_end_headers(send_response("304"))
      [] o = "notfound" -> send_error("404")
      [] o = "forbidden" -> send_error("403")

\* A bind failure raises OSError out of run_server (the variant catches it
\* and goes on).
AfterBindFailure_Swallowed == "announce"
AfterBindFailure == "raised"

\* An exception in the timer thread stays in the timer thread (the variant
\* calls webbrowser.open in the main thread).
AfterBrowserFailure_InMain(p) == "raised"
AfterBrowserFailure(p) == p

\* find_free_port, port != 0: return port
FindFreePort_Fixed ==
    /\ pc = "start" /\ port # 0
    /\ pc' = "construct"
    /\ UNCHANGED <<cfgPort, open_path, port, others, probe, sock, boundPort,
                   closeCount, pending, timers, timerState, open_url,
                   browserCalls, interrupted, bindFailed, served, wire, nreq>>

    /\ UNCHANGED bvars
\* find_free_port, port == 0: s.bind((host, 0)) -- the OS picks a free port
FindFreePort_Probe ==
    /\ pc = "start" /\ port = 0
    /\ \E p \in Ports \ others : probe' = p
    /\ pc' = "probed"
    /\ UNCHANGED <<cfgPort, open_path, port, others, sock, boundPort,
                   closeCount, pending, timers, timerState, open_url,
                   browserCalls, interrupted, bindFailed, served, wire, nreq>>

    /\ UNCHANGED bvars
\* s.bind((host, 0)) with no free port: OSError
FindFreePort_ProbeFail ==
    /\ pc = "start" /\ port = 0 /\ Ports \ others = {}
    /\ pc' = "raised"
    /\ UNCHANGED <<cfgPort, open_path, port, others, probe, sock, boundPort,
                   closeCount, pending, timers, timerState, open_url,
                   browserCalls, interrupted, bindFailed, served, wire, nreq>>

    /\ UNCHANGED bvars
\* return s.getsockname()[1]; contextlib.closing releases the probe
FindFreePort_Return ==
    /\ pc = "probed"
    /\ port' = probe
    /\ probe' = 0
    /\ pc' = "construct"
    /\ UNCHANGED <<cfgPort, open_path, others, sock, boundPort,
                   closeCount, pending, timers, timerState, open_url,
                   browserCalls, interrupted, bindFailed, served, wire, nreq>>

    /\ UNCHANGED bvars
\* httpd = ThreadingHTTPServer((host, port), handler): bind and listen
ServerBind_Ok ==
    /\ pc = "construct" /\ port \notin others
    /\ sock' = "open"
    /\ boundPort' = port
    /\ pc' = "announce"
    /\ UNCHANGED <<cfgPort, open_path, port, others, probe,
                   closeCount, pending, timers, timerState, open_url,
                   browserCalls, interrupted, bindFailed, served, wire, nreq>>

    /\ UNCHANGED bvars
ServerBind_Fail ==
    /\ pc = "construct" /\ port \in others
    /\ bindFailed' = TRUE
    /\ pc' = AfterBindFailure
    /\ UNCHANGED <<cfgPort, open_path, port, others, probe, sock, boundPort,
                   closeCount, pending, timers, timerState, open_url,
                   browserCalls, interrupted, served, wire, nreq>>

    /\ UNCHANGED bvars
\* url = ...; print(f"Serving ...")
Announce ==
    /\ pc = "announce"
    /\ pc' = "open_check"
    /\ UNCHANGED <<cfgPort, open_path, port, others, probe, sock, boundPort,
                   closeCount, pending, timers, timerState, open_url,
                   browserCalls, interrupted, bindFailed, served, wire, nreq>>

    /\ UNCHANGED bvars
\* if open_path: ... threading.Timer(0.4, ...).start(); then serve_forever()
ScheduleOpen ==
    /\ pc = "open_check" /\ Truthy(open_path)
    /\ open_url' = OpenUrl(Host, port, open_path)
    /\ timers' = timers + 1
    /\ timerState' = "pending"
    /\ pc' = "serve"
    /\ served' = TRUE
    /\ UNCHANGED <<cfgPort, open_path, port, others, probe, sock, boundPort,
                   closeCount, pending, browserCalls, interrupted, bindFailed,
                   wire, nreq>>

    /\ UNCHANGED bvars
SkipOpen ==
    /\ pc = "open_check" /\ ~Truthy(open_path)
    /\ pc' = "serve"
    /\ served' = TRUE
    /\ UNCHANGED <<cfgPort, open_path, port, others, probe, sock, boundPort,
                   closeCount, pending, timers, timerState, open_url,
                   browserCalls, interrupted, bindFailed, wire, nreq>>

    /\ UNCHANGED bvars
\* KeyboardInterrupt outside the try statement: it propagates; the with
\* statement of find_free_port releases the probe.
Interrupt_Startup ==
    /\ pc \in {"start", "probed", "construct", "announce", "open_check"}
    /\ interrupted' = TRUE
    /\ probe' = 0
    /\ pc' = "raised"
    /\ UNCHANGED <<cfgPort, open_path, port, others, sock, boundPort,
                   closeCount, pending, timers, timerState, open_url,
                   browserCalls, bindFailed, served, wire, nreq>>

    /\ UNCHANGED bvars
\* KeyboardInterrupt in serve_forever(): caught by the except clause
Interrupt_Serving ==
    /\ pc = "serve"
    /\ interrupted' = TRUE
    /\ pc' = "except"
    /\ UNCHANGED <<cfgPort, open_path, port, others, probe, sock, boundPort,
                   closeCount, pending, timers, timerState, open_url,
                   browserCalls, bindFailed, served, wire, nreq>>

    /\ UNCHANGED bvars
\* a second KeyboardInterrupt in the except clause: the finally block runs,
\* then it propagates
Interrupt_Handler ==
    /\ pc = "except"
    /\ pending' = TRUE
    /\ pc' = "finally"
    /\ UNCHANGED <<cfgPort, open_path, port, others, probe, sock, boundPort,
                   closeCount, timers, timerState, open_url,
                   browserCalls, interrupted, bindFailed, served, wire, nreq>>

    /\ UNCHANGED bvars
\* KeyboardInterrupt in the finally block, before server_close() has run
Interrupt_Finally ==
    /\ pc = "finally"
    /\ pc' = "raised"
    /\ UNCHANGED <<cfgPort, open_path, port, others, probe, sock, boundPort,
                   closeCount, pending, timers, timerState, open_url,
                   browserCalls, interrupted, bindFailed, served, wire, nreq>>

    /\ UNCHANGED bvars
\* print("\nShutting down...")
ExceptHandler ==
    /\ pc = "except"
    /\ pc' = "finally"
    /\ UNCHANGED <<cfgPort, open_path, port, others, probe, sock, boundPort,
                   closeCount, pending, timers, timerState, open_url,
                   browserCalls, interrupted, bindFailed, served, wire, nreq>>

    /\ UNCHANGED bvars
\* finally: httpd.server_close(); then return 0, or the pending exception
ServerClose ==
    /\ pc = "finally"
    /\ sock' = "closed"
    /\ closeCount' = closeCount + 1
    /\ pc' = IF pending THEN "raised" ELSE "returned"
    /\ UNCHANGED <<cfgPort, open_path, port, others, probe, boundPort,
                   pending, timers, timerState, open_url,
                   browserCalls, interrupted, bindFailed, served, wire, nreq>>

    /\ UNCHANGED bvars
\* the timer thread: webbrowser.open(open_url) returns or raises
TimerFires ==
    /\ timerState = "pending"
    /\ browserCalls' = Append(browserCalls, open_url)
    /\ \/ /\ timerState' = "opened"
          /\ pc' = pc
       \/ /\ timerState' = "failed"
          /\ pc' = AfterBrowserFailure(pc)
    /\ UNCHANGED <<cfgPort, open_path, port, others, probe, sock, boundPort,
                   closeCount, pending, timers, open_url,
                   interrupted, bindFailed, served, wire, nreq>>

    /\ UNCHANGED bvars
\* a worker thread handles one request while the serve loop runs
HandleRequest ==
    /\ pc = "serve" /\ sock = "open" /\ nreq < MaxRequests
    /\ \E o \in Outcomes : wire' = Respond(o)
    /\ nreq' = nreq + 1
    /\ UNCHANGED <<pc, cfgPort, open_path, port, others, probe, sock, boundPort,
                   closeCount, pending, timers, timerState, open_url,
                   browserCalls, interrupted, bindFailed, served>>

    /\ UNCHANGED bvars
\* another process binds a port nobody holds
OtherBind ==
    /\ \E p \in Ports \ (others \cup {probe} \cup
                         (IF sock = "open" THEN {boundPort} ELSE {})) :
           others' = others \cup {p}
    /\ UNCHANGED <<pc, cfgPort, open_path, port, probe, sock, boundPort,
                   closeCount, pending, timers, timerState, open_url,
                   browserCalls, interrupted, bindFailed, served, wire, nreq>>

    /\ UNCHANGED bvars
OtherRelease ==
    /\ \E p \in others : others' = others \ {p}
    /\ UNCHANGED <<pc, cfgPort, open_path, port, probe, sock, boundPort,
                   closeCount, pending, timers, timerState, open_url,
                   browserCalls, interrupted, bindFailed, served, wire, nreq>>

    /\ UNCHANGED bvars
ServerNext ==
    \/ FindFreePort_Fixed
    \/ FindFreePort_Probe
    \/ FindFreePort_ProbeFail
    \/ FindFreePort_Return
    \/ ServerBind_Ok
    \/ ServerBind_Fail
    \/ Announce
    \/ ScheduleOpen
    \/ SkipOpen
    \/ Interrupt_Startup
    \/ Interrupt_Serving
    \/ Interrupt_Handler
    \/ Interrupt_Finally
    \/ ExceptHandler
    \/ ServerClose
    \/ TimerFires
    \/ HandleRequest
    \/ OtherBind
    \/ OtherRelease

ServerIdle ==
    /\ pc = "start" /\ cfgPort = 0 /\ open_path = [none |-> TRUE, s |-> <<>>]
    /\ port = 0 /\ others = {} /\ probe = 0 /\ sock = "none" /\ boundPort = 0
    /\ closeCount = 0 /\ pending = FALSE /\ timers = 0 /\ timerState = "none"
    /\ open_url = NoUrl /\ browserCalls = <<>> /\ interrupted = FALSE
    /\ bindFailed = FALSE /\ served = FALSE /\ wire = <<>> /\ nreq = 0

\* ======================================================== concat.py
\* A path is a sequence of tokens: names, "/" and "\\".
Builds == {"posix", "nt", "nt_legacy"}
PathPool == { <<"a">>, <<"b">>, <<"d", "/", "a">>, <<"d", "\\", "a">>,
              <<"/", "a">>, <<"\\", "a">> }
OUTPUT == <<"solar_system_bundle.txt">>
OutputPool == {OUTPUT, <<"a">>}
Keys == PathPool \cup OutputPool
Contents == { <<"hi">>, <<"l1", "l2", "l3", "l4", "l5">> }
MissingFile == [kind |-> "missing", text |-> <<>>]
Unreadable == [kind |-> "unreadable", text |-> <<>>]
TextFile(t) == [kind |-> "file", text |-> t]
FileStates == {MissingFile, Unreadable} \cup {TextFile(t) : t \in Contents}

BackToSlash(c) == IF c = "\\" THEN "/" ELSE c
SlashToBack(c) == IF c = "/" THEN "\\" ELSE c
ToSlash(s) == [i \in 1..Len(s) |-> BackToSlash(s[i])]
ToBackslash(s) == [i \in 1..Len(s) |-> SlashToBack(s[i])]
IsSep(b, c) == IF b = "posix" THEN c = "/" ELSE c \in {"/", "\\"}

\* Path(f): the file a path string names.  On Windows "/" and "\\" both
\* separate components; on POSIX "\\" is a character of a name.
PathKey(b, f) == IF b = "posix" THEN f ELSE ToBackslash(f)

\* FILES = list(dict.fromkeys(FILES))
RECURSIVE DedupeFrom(_, _)
DedupeFrom(s, acc) ==
    IF s = <<>> THEN acc
    ELSE DedupeFrom(Tail(s),
                    IF \E i \in 1..Len(acc) : acc[i] = Head(s)
                    THEN acc ELSE Append(acc, Head(s)))
Dedupe(s) == DedupeFrom(s, <<>>)
FILES == Dedupe(given)

\* HEADER = "# ===== {path} =====\n"
HEADER(path) == <<"# ===== ">> \o path \o <<" =====\n">>

\* str(PurePosixPath(Path(f))).  A PosixPath is rendered as it is.  A
\* WindowsPath: Python >= 3.12 replaces every "\\" by "/"; older versions
\* join the parts with "/", and the anchor part of a rooted path is "\\".
PurePosixRender(b, f) ==
    CASE b = "posix" -> f
      [] b = "nt" -> ToSlash(f)
      [] b = "nt_legacy" ->
           IF f # <<>> /\ IsSep(b, Head(f))
           THEN <<"\\", "/">> \o ToSlash(Tail(f))
           ELSE ToSlash(f)

\* p.exists()
Exists(f, k) == f[k].kind # "missing"

\* out_path.open("w"): the file is created or truncated (the variant opens
\* it with "a")
OpenAppend(old) == TextFile(old.text)
OpenForWrite(old) == TextFile(<<>>)

\* out_fp.write(data): the stream keeps up to BufferSize tokens and writes
\* them to the file when it holds more
WriteOut(st, data) ==
    LET b == st.buf \o data
    IN IF Len(b) > BufferSize
       THEN [disk |-> st.disk \o b, buf |-> <<>>]
       ELSE [disk |-> st.disk, buf |-> b]

\* `continue` after a missing file: the loop goes on with the next entry
\* (the variant is a `break`)
NextAfterSkip_Break(i, n) == n + 1
NextAfterSkip(i, n) == i + 1

OutKey == PathKey(build, output)
NoRet == [set |-> FALSE, path |-> <<>>]

BundlerIdle ==
    /\ bpc = "idle" /\ build = "posix" /\ given = <<>> /\ fromDefault = TRUE
    /\ output = OUTPUT /\ fs = [k \in Keys |-> MissingFile]
    /\ files = <<>> /\ idx = 1 /\ count_ok = 0 /\ count_skipped = 0
    /\ buf = <<>> /\ warnings = <<>> /\ headers = <<>> /\ reads = <<>>
    /\ ret = NoRet /\ run = 1 /\ prevOutput = <<>>

BundlerInit ==
    /\ bpc = "idle"
    /\ build \in Builds
    /\ given \in SeqsUpTo(PathPool, MaxFiles)
    /\ fromDefault \in BOOLEAN
    /\ output \in OutputPool
    /\ LET inKeys == {PathKey(build, given[i]) : i \in 1..Len(given)} \ {OutKey}
       IN \E g \in [inKeys -> FileStates] :
          \E o \in {MissingFile} \cup {TextFile(t) : t \in Contents} :
             fs = [k \in Keys |-> IF k = OutKey THEN o
                                  ELSE IF k \in inKeys THEN g[k]
                                  ELSE MissingFile]
    /\ files = <<>> /\ idx = 1 /\ count_ok = 0 /\ count_skipped = 0
    /\ buf = <<>> /\ warnings = <<>> /\ headers = <<>> /\ reads = <<>>
    /\ ret = NoRet /\ run = 1 /\ prevOutput = <<>>

    /\ ServerIdle

ServerInit ==
    /\ pc = "start"
    /\ cfgPort \in 0..MaxPort
    /\ open_path \in OpenPaths
    /\ port = cfgPort
    /\ others \in SUBSET Ports
    /\ probe = 0
    /\ sock = "none"
    /\ boundPort = 0
    /\ closeCount = 0
    /\ pending = FALSE
    /\ timers = 0
    /\ timerState = "none"
    /\ open_url = NoUrl
    /\ browserCalls = <<>>
    /\ interrupted = FALSE
    /\ bindFailed = FALSE
    /\ served = FALSE
    /\ wire = <<>>
    /\ nreq = 0

    /\ BundlerIdle

\* if files is None: files = FILES; out_path.open("w")
Bundle_Open ==
    /\ bpc = "idle"
    /\ files' = IF fromDefault THEN FILES ELSE given
    /\ fs' = [fs EXCEPT ![OutKey] = OpenForWrite(fs[OutKey])]
    /\ buf' = <<>>
    /\ idx' = 1 /\ count_ok' = 0 /\ count_skipped' = 0
    /\ warnings' = <<>> /\ headers' = <<>> /\ reads' = <<>>
    /\ ret' = NoRet
    /\ bpc' = "loop"
    /\ UNCHANGED <<build, given, fromDefault, output, run, prevOutput>>

    /\ UNCHANGED svars
\* if not p.exists(): print warning; count_skipped += 1; continue
Bundle_Skip ==
    /\ bpc = "loop" /\ idx <= Len(files)
    /\ ~Exists(fs, PathKey(build, files[idx]))
    /\ warnings' = Append(warnings, files[idx])
    /\ count_skipped' = count_skipped + 1
    /\ idx' = NextAfterSkip(idx, Len(files))
    /\ UNCHANGED <<bpc, build, given, fromDefault, output, fs, files, count_ok,
                   buf, headers, reads, ret, run, prevOutput>>

    /\ UNCHANGED svars
\* write the header, p.read_text(), write the text, write "\n\n"; count_ok += 1
Bundle_Write ==
    /\ bpc = "loop" /\ idx <= Len(files)
    /\ LET f == files[idx]
           k == PathKey(build, f)
           line == HEADER(PurePosixRender(build, f))
           st1 == WriteOut([disk |-> fs[OutKey].text, buf |-> buf], line)
           text == IF k = OutKey THEN st1.disk ELSE fs[k].text
           st2 == WriteOut(st1, text)
           st3 == WriteOut(st2, <<"\n\n">>)
       IN /\ Exists(fs, k) /\ fs[k].kind = "file"
          /\ fs' = [fs EXCEPT ![OutKey] = TextFile(st3.disk)]
          /\ buf' = st3.buf
          /\ headers' = Append(headers, [src |-> f, line |-> line])
          /\ reads' = Append(reads, [i |-> idx, text |-> text])
    /\ count_ok' = count_ok + 1
    /\ idx' = idx + 1
    /\ UNCHANGED <<bpc, build, given, fromDefault, output, files, count_skipped,
                   warnings, ret, run, prevOutput>>

    /\ UNCHANGED svars
\* p.read_text() raises (a directory, no permission): the header is written,
\* the with statement closes out_fp, the error propagates
Bundle_ReadError ==
    /\ bpc = "loop" /\ idx <= Len(files)
    /\ LET f == files[idx]
           k == PathKey(build, f)
           line == HEADER(PurePosixRender(build, f))
           st1 == WriteOut([disk |-> fs[OutKey].text, buf |-> buf], line)
       IN /\ Exists(fs, k) /\ fs[k].kind = "unreadable"
          /\ fs' = [fs EXCEPT ![OutKey] = TextFile(st1.disk \o st1.buf)]
          /\ headers' = Append(headers, [src |-> f, line |-> line])
    /\ buf' = <<>>
    /\ bpc' = "raised"
    /\ UNCHANGED <<build, given, fromDefault, output, files, idx, count_ok,
                   count_skipped, warnings, reads, ret, run, prevOutput>>

    /\ UNCHANGED svars
\* the end of the list: out_fp is closed, the summary printed, out_path returned
Bundle_Close ==
    /\ bpc = "loop" /\ idx > Len(files)
    /\ fs' = [fs EXCEPT ![OutKey] = TextFile(fs[OutKey].text \o buf)]
    /\ buf' = <<>>
    /\ ret' = [set |-> TRUE, path |-> output]
    /\ bpc' = "done"
    /\ UNCHANGED <<build, given, fromDefault, output, files, idx, count_ok,
                   count_skipped, warnings, headers, reads, run, prevOutput>>

    /\ UNCHANGED svars
\* bundle() is called again with the same arguments
Bundle_Again ==
    /\ bpc = "done" /\ run < MaxRuns
    /\ prevOutput' = fs[OutKey].text
    /\ run' = run + 1
    /\ bpc' = "idle"
    /\ UNCHANGED <<build, given, fromDefault, output, fs, files, idx, count_ok,
                   count_skipped, buf, warnings, headers, reads, ret>>

    /\ UNCHANGED svars
BundlerNext ==
    \/ Bundle_Open
    \/ Bundle_Skip
    \/ Bundle_Write
    \/ Bundle_ReadError
    \/ Bundle_Close
    \/ Bundle_Again

\* ======================================================== specifications
ServerSpec == ServerInit /\ [][ServerNext]_vars
BundlerSpec == BundlerInit /\ [][BundlerNext]_vars

\* ======================================================== claims, serve.py

\* C1: when run_server is called with port 0 and find_free_port has returned
\* a port, the listening server is constructed on that port (> 0), whatever
\* other processes bind in between: no run without an operator interrupt
\* leaves the construction step without a socket bound to the returned port.
C1_PortZeroAlwaysBinds ==
    (cfgPort = 0 /\ port > 0 /\ pc # "construct" /\ ~interrupted)
        => (sock # "none" /\ boundPort = port)

\* C2: once the listening server is constructed, every end of run_server
\* (the serve path left by an interrupt at any later point) has the
\* listening socket closed exactly once and returns exit code 0.
C2_InterruptClosesSocketExitZero ==
    (sock # "none" /\ pc \in {"returned", "raised"})
        => (sock = "closed" /\ closeCount = 1 /\ pc = "returned")

HasHeader(w, k, v) == \E i \in 1..(Len(w) - 1) : w[i] = <<k, v>>
OnlyValue(w, k, v) == \A i \in 1..Len(w) : w[i][1] = k => w[i][2] = v
Terminated(w) == w[Len(w)] = CRLF /\ \A i \in 1..(Len(w) - 1) : w[i] # CRLF

\* C3: every response sent, whatever the outcome of the request, carries
\* Cache-Control: no-store, no-cache, must-revalidate, Pragma: no-cache and
\* Expires: 0, with no other value for these headers, each before the empty
\* line that terminates the header block.
C3_NoCacheHeaders ==
    nreq > 0 =>
        /\ Terminated(wire)
        /\ HasHeader(wire, "Cache-Control", "no-store, no-cache, must-revalidate")
        /\ HasHeader(wire, "Pragma", "no-cache")
        /\ HasHeader(wire, "Expires", "0")
        /\ OnlyValue(wire, "Cache-Control", "no-store, no-cache, must-revalidate")
        /\ OnlyValue(wire, "Pragma", "no-cache")
        /\ OnlyValue(wire, "Expires", "0")

\* an error response (404) has been sent
C3_Witness == nreq > 0 /\ wire[1] = <<"HTTP/1.0", "404">>

\* the open path without its leading "/" tokens
Stripped(s, t) ==
    \E n \in 0..Len(s) :
        /\ \A i \in 1..n : s[i] = "/"
        /\ n < Len(s) => s[n + 1] # "/"
        /\ t = SubSeq(s, n + 1, Len(s))

\* C9: with a non-empty open path exactly one browser-open timer is started,
\* only after the server is bound; the URL opened is
\* http://<host>:<resolved port>/<open path without leading slashes>; a
\* failure of the call in the timer thread leaves the main thread serving
\* with the socket open; with no open path (None or "") no timer is started
\* and no browser-open call is made.
C9_BrowserOpen ==
    /\ timers <= 1
    /\ Len(browserCalls) <= timers
    /\ served => timers = (IF ~open_path.none /\ Len(open_path.s) > 0 THEN 1 ELSE 0)
    /\ (open_path.none \/ Len(open_path.s) = 0) => (timers = 0 /\ browserCalls = <<>>)
    /\ timers = 1 => (sock # "none" /\ boundPort = port /\ port > 0)
    /\ \A i \in 1..Len(browserCalls) :
          /\ browserCalls[i].scheme = "http"
          /\ browserCalls[i].host = Host
          /\ browserCalls[i].port = boundPort
          /\ browserCalls[i].port > 0
          /\ Head(browserCalls[i].path) = "/"
          /\ Stripped(open_path.s, Tail(browserCalls[i].path))
    /\ (timerState = "failed" /\ ~interrupted) => (pc = "serve" /\ sock = "open")

\* the browser-open call failed while the server, started with port 0 and
\* the open path "/p", keeps serving
C9_Witness ==
    /\ timerState = "failed" /\ pc = "serve" /\ sock = "open"
    /\ cfgPort = 0 /\ open_path.s = <<"/", "p">>
    /\ Len(browserCalls) = 1

\* C10: a failed bind aborts startup: run_server ends with the error
\* propagated, never serves, starts no timer and does not return 0; an error
\* response (404, 403) leaves the server serving with the socket open.
C10_BindFailureFatal ==
    /\ bindFailed => (pc = "raised" /\ ~served /\ timers = 0 /\ sock = "none")
    /\ (nreq > 0 /\ wire[1][2] \in {"404", "403"} /\ ~interrupted)
          => (pc = "serve" /\ sock = "open")

\* the configured port was in use when the server was constructed
C10_Witness == bindFailed /\ pc = "raised" /\ cfgPort # 0 /\ cfgPort \in others

\* ======================================================== claims, concat.py

\* C4: for the built-in list and for a list passed by the caller, duplicate
\* paths are removed before processing, each path keeping the place of its
\* first occurrence, so no path gets more than one section.
C4_DuplicatesRemoved ==
    bpc = "done" =>
        /\ files = Dedupe(given)
        /\ \A i, j \in 1..Len(headers) : i # j => headers[i].src # headers[j].src

\* C5: at every step of the loop count_ok + count_skipped is the number of
\* entries processed, and when bundle() finishes it is the length of the
\* deduplicated input list.
C5_CountsSumToDedupedLength ==
    /\ bpc = "loop" => count_ok + count_skipped = idx - 1
    /\ bpc = "done" => count_ok + count_skipped = Len(Dedupe(given))

\* C6: the header of every section is "# ===== <path> =====" with <path> the
\* source path with every separator, "\\" or "/", shown as "/", on every host.
C6_HeaderForwardSlash ==
    \A i \in 1..Len(headers) :
        headers[i].line =
            <<"# ===== ">>
            \o [j \in 1..Len(headers[i].src) |->
                   IF headers[i].src[j] = "\\" THEN "/" ELSE headers[i].src[j]]
            \o <<" =====\n">>

\* C7: a second call of bundle() with the same list and output path leaves
\* the output file exactly as the first call left it.
C7_Idempotent ==
    (run > 1 /\ bpc = "done") => fs[OutKey].text = prevOutput

\* a second call finished, with the output path among the input paths
C7_Witness ==
    /\ run = 2 /\ bpc = "done" /\ prevOutput # <<>>
    /\ \E i \in 1..Len(files) : PathKey(build, files[i]) = OutKey

IsMissing(f) == fs[PathKey(build, f)].kind = "missing"
TextRead(i) == (CHOOSE r \in {reads[j] : j \in 1..Len(reads)} : r.i = i).text
RECURSIVE ExpectedFrom(_)
ExpectedFrom(i) ==
    IF i > Len(files) THEN <<>>
    ELSE (IF IsMissing(files[i]) THEN <<>>
          ELSE HEADER(PurePosixRender(build, files[i]))
               \o (IF PathKey(build, files[i]) = OutKey
                   THEN TextRead(i)
                   ELSE fs[PathKey(build, files[i])].text)
               \o <<"\n\n">>)
         \o ExpectedFrom(i + 1)

\* C8: when bundle() returns, the output holds one section (header, the
\* file's text, blank line) for each entry of the list that exists, in list
\* order, and nothing for a missing entry; each missing entry was reported
\* once, in order; the value returned is the output path.
C8_SkipMissingAndContinue ==
    bpc = "done" =>
        /\ fs[OutKey].text = ExpectedFrom(1)
        /\ warnings = SelectSeq(files, IsMissing)
        /\ count_ok = Len(files) - Len(warnings)
        /\ ret = [set |-> TRUE, path |-> output]

\* a list whose first entry is missing and whose second exists was bundled
C8_Witness ==
    /\ bpc = "done" /\ Len(files) = 2
    /\ IsMissing(files[1]) /\ ~IsMissing(files[2])
    /\ count_ok = 1 /\ count_skipped = 1

====
